---- MODULE Spec2Model ----
(***************************************************************************)
(* Round-robin game generation of kob-tracker.                             *)
(*                                                                         *)
(* lib/database.ts: generateRoundRobinGames, generateAllTeammatePairs,     *)
(* createGamesFromTeammatePairs, createGame.                               *)
(* components/Home.tsx: handleGenerateRoundRobin, loadData.                *)
(*                                                                         *)
(* A player is modelled by its id; ids are positive integers ordered as    *)
(* the id strings are ordered by Array.prototype.sort().                   *)
(***************************************************************************)
EXTENDS Integers, Sequences, FiniteSets, TLC

\* Largest roster handed to the pair enumerator and the schedule builder.
MaxPlayers == 6

\* Largest roster of the builder runs checked for termination.
MaxFairPlayers == 5

\* Largest roster of two concurrent invocations of the builder.
MaxTwoPlayers == 4

\* Largest players table of a whole generation run (with persistence).
MaxRunPlayers == 4

\* Largest players table of two generation runs in a row.
MaxTwicePlayers == 4

\* Largest number of generation runs started from one Home page.
MaxRuns == 2

\* Largest roster of the builder runs on pairs given in either orientation.
MaxKeyPlayers == 4

\* Largest number of handler calls started from one GameView.
MaxClicks == 2

\* Largest switch_sides_interval of the game a GameView loads.
MaxInterval == 4

\* Largest number of clock ticks while a GameView is open.
MaxTicks == 2

\* Minimum roster size accepted by generateRoundRobinGames.
MinPlayers == 4

\* The value of an out-of-range array read (undefined); no player has it.
Undefined == 0

VARIABLES
  \* ---- createGamesFromTeammatePairs (one invocation) ----
  allPlayers,      \* argument allPlayers
  teammatePairs,   \* argument teammatePairs (result of the enumerator)
  games,           \* local games
  usedPairs,       \* local usedPairs
  ci,              \* position of the for-of loop in teammatePairs (1-based)
  bpc,             \* "idle" | "call" | "loop" | "done" | "raised"
  \* ---- generateRoundRobinGames / createGame ----
  selectedPlayers, \* argument selectedPlayers
  pc,              \* "idle" | "check" | "auth" | "generate" | "await" | "resolved" | "rejected"
  gamePromises,    \* local gamePromises: one createGame call per entry
  allSettled,      \* state of Promise.all(gamePromises)
  thrown,          \* the error generateRoundRobinGames rejected with
  results,         \* the records generateRoundRobinGames resolved with
  \* ---- the backend tables ----
  playersTable,    \* rows of table players, in the order getAllPlayers returns
  gamesTable,      \* rows of table games, in insertion order
  \* ---- Home component ----
  players,         \* state players (snapshot of the last loadData)
  hpc,             \* "idle" | "getAllPlayers" | "generating" | "done"
  runs,            \* number of handleGenerateRoundRobin calls started
  success,         \* state success
  error,           \* state error
  \* ---- createGame calls of earlier generateRoundRobinGames calls ----
  orphans,         \* the gamePromises arrays of the calls that have returned
  \* ---- a second, concurrent invocation of createGamesFromTeammatePairs ----
  other,           \* its arguments, locals and position, as a record
  \* ---- GameView component, and the row of table games it shows ----
  viewGame,        \* state game of GameView (the GameWithPlayers last set by setGame)
  gameRow,         \* the row of the game in table games
  now,             \* the clock, new Date().getTime() in milliseconds
  calls,           \* the handler calls made so far, each with its writes
  mounted,         \* the GameView is shown (no navigate("/") yet)
  viewError        \* state error of GameView

builderVars == <<allPlayers, teammatePairs, games, usedPairs, ci, bpc>>
runVars     == <<selectedPlayers, pc, gamePromises, allSettled, thrown, results>>
tableVars   == <<playersTable, gamesTable>>
homeVars    == <<players, hpc, success, error>>
viewVars    == <<viewGame, gameRow, now, calls, mounted, viewError>>
restVars    == <<runs, orphans, other, viewVars>>
vars        == <<allPlayers, teammatePairs, games, usedPairs, ci, bpc,
                 selectedPlayers, pc, gamePromises, allSettled, thrown, results,
                 playersTable, gamesTable, players, hpc, success, error,
                 runs, orphans, other,
                 viewGame, gameRow, now, calls, mounted, viewError>>

(***************************************************************************)
(* Rosters: every order of the ids 1..n.  Only the relative order of the   *)
(* ids matters to the code (sort() of two ids, equality of ids).           *)
(***************************************************************************)
Range(s) == {s[i] : i \in DOMAIN s}

Perms(n) == {s \in [1..n -> 1..n] : Range(s) = 1..n}

Rosters(max) == UNION {Perms(n) : n \in 0..max}

\* The roster 1..n in ascending order.
Ascending(n) == [i \in 1..n |-> i]

\* An array read: undefined when the index is out of range.
At(s, i) == IF i \in 1..Len(s) THEN s[i] ELSE Undefined

(***************************************************************************)
(* [a.id, b.id].sort().join('-'): the two ids in ascending order.          *)
(***************************************************************************)
\* The key without the sort(): the two ids as given.
PairKey_Unsorted(a, b) == <<a, b>>

PairKey(a, b) == IF b < a THEN <<b, a>> ELSE <<a, b>>

(***************************************************************************)
(* generateAllTeammatePairs: the nested loops i < j, appending to pairs.   *)
(***************************************************************************)
RECURSIVE PairsLoop(_, _, _, _)
PairsLoop(ps, i, j, pairs) ==
  IF i > Len(ps) THEN pairs
  ELSE IF j > Len(ps) THEN PairsLoop(ps, i + 1, i + 2, pairs)
  ELSE PairsLoop(ps, i, j + 1, Append(pairs, <<ps[i], ps[j]>>))

\* An enumerator whose inner loop stops one player short (j < length - 1).
RECURSIVE PairsLoop_SkipLast(_, _, _, _)
PairsLoop_SkipLast(ps, i, j, pairs) ==
  IF i > Len(ps) THEN pairs
  ELSE IF j > Len(ps) - 1 THEN PairsLoop_SkipLast(ps, i + 1, i + 2, pairs)
  ELSE PairsLoop_SkipLast(ps, i, j + 1, Append(pairs, <<ps[i], ps[j]>>))

generateAllTeammatePairs_SkipLast(ps) == PairsLoop_SkipLast(ps, 1, 2, <<>>)

\* An enumerator that reads the second player one index too far (players[j + 1]).
generateAllTeammatePairs_ShiftJ(ps) ==
  LET pairs == PairsLoop(ps, 1, 2, <<>>)
      IndexOf(x) == CHOOSE k \in DOMAIN ps : ps[k] = x
  IN [k \in DOMAIN pairs |-> <<pairs[k][1], At(ps, IndexOf(pairs[k][2]) + 1)>>]

generateAllTeammatePairs(ps) == PairsLoop(ps, 1, 2, <<>>)

\* A filter that drops player1 only.
RemainingPlayers_KeepPlayer2(ps, player1, player2) ==
  SelectSeq(ps, LAMBDA p : p # player1)

(***************************************************************************)
(* allPlayers.filter(p => p.id !== player1.id && p.id !== player2.id)      *)
(***************************************************************************)
RemainingPlayers(ps, player1, player2) ==
  SelectSeq(ps, LAMBDA p : p # player1 /\ p # player2)

(***************************************************************************)
(* The search for team2: the first pair of remainingPlayers, in (i, j)     *)
(* ascending order, whose key is not in usedPairs.  Reading .id of an      *)
(* undefined array element throws a TypeError.                             *)
(***************************************************************************)
NoTeam2 == [kind |-> "none", team2 |-> <<Undefined, Undefined>>]

\* A search whose inner loop runs one index past the end of remainingPlayers.
RECURSIVE FindTeam2_OffByOne(_, _, _, _)
FindTeam2_OffByOne(remaining, used, i, j) ==
  IF i > Len(remaining) THEN NoTeam2
  ELSE IF j > Len(remaining) + 1 THEN FindTeam2_OffByOne(remaining, used, i + 1, i + 2)
  ELSE LET potentialTeam2 == <<At(remaining, i), At(remaining, j)>>
       IN IF Undefined \in Range(potentialTeam2)
          THEN [kind |-> "raised", team2 |-> potentialTeam2]
          ELSE IF PairKey(potentialTeam2[1], potentialTeam2[2]) \notin used
          THEN [kind |-> "found", team2 |-> potentialTeam2]
          ELSE FindTeam2_OffByOne(remaining, used, i, j + 1)

\* A search whose inner loop runs from the last player down to i + 1.
FindTeam2_Descending(remaining, used, i, j) ==
  LET unused == {q \in (DOMAIN remaining) \X (DOMAIN remaining) :
                   q[1] < q[2] /\ PairKey(remaining[q[1]], remaining[q[2]]) \notin used}
  IN IF unused = {} THEN NoTeam2
     ELSE LET q == CHOOSE q \in unused :
                     \A r \in unused : q[1] < r[1] \/ (q[1] = r[1] /\ q[2] >= r[2])
          IN [kind |-> "found", team2 |-> <<remaining[q[1]], remaining[q[2]]>>]

RECURSIVE FindTeam2(_, _, _, _)
FindTeam2(remaining, used, i, j) ==
  IF i > Len(remaining) THEN NoTeam2
  ELSE IF j > Len(remaining) THEN FindTeam2(remaining, used, i + 1, i + 2)
  ELSE LET potentialTeam2 == <<At(remaining, i), At(remaining, j)>>
       IN IF Undefined \in Range(potentialTeam2)
          THEN [kind |-> "raised", team2 |-> potentialTeam2]
          ELSE IF PairKey(potentialTeam2[1], potentialTeam2[2]) \notin used
          THEN [kind |-> "found", team2 |-> potentialTeam2]
          ELSE FindTeam2(remaining, used, i, j + 1)

\* The iteration with one of its parts changed: which keys it marks as used
\* (markTeam1, markTeam2) and how many remaining players it asks for.
BuilderStepWith(st, team1, ps, markTeam1, markTeam2, minRemaining) ==
  LET player1 == team1[1]
      player2 == team1[2]
      team1Key == PairKey(player1, player2)
      remainingPlayers == RemainingPlayers(ps, player1, player2)
      found == FindTeam2(remainingPlayers, st.usedPairs, 1, 2)
  IN IF team1Key \in st.usedPairs THEN st
     ELSE IF Len(remainingPlayers) >= minRemaining
     THEN IF found.kind = "raised" THEN [st EXCEPT !.raised = TRUE]
          ELSE IF found.kind = "found"
          THEN [games |-> Append(st.games, [team1 |-> team1, team2 |-> found.team2]),
                usedPairs |-> st.usedPairs
                              \cup (IF markTeam1 THEN {team1Key} ELSE {})
                              \cup (IF markTeam2
                                    THEN {PairKey(found.team2[1], found.team2[2])}
                                    ELSE {}),
                raised |-> FALSE]
          ELSE st
     ELSE st

\* usedPairs.add(team2Key) left out.
BuilderStep_ForgetTeam2(st, team1, ps) == BuilderStepWith(st, team1, ps, TRUE, FALSE, 2)

\* usedPairs.add(team1Key) left out.
BuilderStep_ForgetTeam1(st, team1, ps) == BuilderStepWith(st, team1, ps, FALSE, TRUE, 2)

\* remainingPlayers.length > 2 instead of >= 2.
BuilderStep_StrictRemaining(st, team1, ps) == BuilderStepWith(st, team1, ps, TRUE, TRUE, 3)

\* A skipped candidate is marked as used as well.
BuilderStep_MarkSkipped(st, team1, ps) ==
  LET after == BuilderStepWith(st, team1, ps, TRUE, TRUE, 2)
  IN IF after = st
     THEN [st EXCEPT !.usedPairs = @ \cup {PairKey(team1[1], team1[2])}]
     ELSE after

\* games.unshift(...) instead of games.push(...).
BuilderStep_Unshift(st, team1, ps) ==
  LET after == BuilderStepWith(st, team1, ps, TRUE, TRUE, 2)
  IN IF Len(after.games) > Len(st.games)
     THEN [after EXCEPT !.games = <<after.games[Len(after.games)]>> \o st.games]
     ELSE after

\* The skip test inverted: if (!usedPairs.has(team1Key)) continue.
BuilderStep_InvertedSkip(st, team1, ps) ==
  IF PairKey(team1[1], team1[2]) \notin st.usedPairs
  THEN st
  ELSE BuilderStepWith([st EXCEPT !.usedPairs = {}], team1, ps, TRUE, TRUE, 2)

(***************************************************************************)
(* One iteration of the for-of loop of createGamesFromTeammatePairs on the *)
(* candidate team1, from the locals st = [games, usedPairs, raised].       *)
(***************************************************************************)
BuilderStep(st, team1, ps) ==
  LET player1 == team1[1]
      player2 == team1[2]
      team1Key == PairKey(player1, player2)
      remainingPlayers == RemainingPlayers(ps, player1, player2)
      found == FindTeam2(remainingPlayers, st.usedPairs, 1, 2)
  IN IF team1Key \in st.usedPairs THEN st
     ELSE IF Len(remainingPlayers) >= 2
     THEN IF found.kind = "raised" THEN [st EXCEPT !.raised = TRUE]
          ELSE IF found.kind = "found"
          THEN [games |-> Append(st.games, [team1 |-> team1, team2 |-> found.team2]),
                usedPairs |-> st.usedPairs \cup
                              {team1Key, PairKey(found.team2[1], found.team2[2])},
                raised |-> FALSE]
          ELSE st
     ELSE st

\* An invocation of createGamesFromTeammatePairs as a record of its
\* arguments, its locals and its position; NoInvocation: none was made.
Invocation(ps, position) ==
  [allPlayers |-> ps, teammatePairs |-> generateAllTeammatePairs(ps),
   games |-> <<>>, usedPairs |-> {}, ci |-> 1, bpc |-> position]

NoInvocation == Invocation(<<>>, "idle")

\* A usedPairs set kept at module level: an invocation starts from the set as
\* the invocations before it left it.
NewUsedPairs_Reused(existing) == existing

\* const usedPairs = new Set<string>(): a fresh, empty set for the invocation,
\* whatever the sets of the other invocations (existing) hold.
NewUsedPairs(existing) == {}

\* A usedPairs set shared by the invocations.
LocalUsedPairs_Shared(own, foreign) == own \cup foreign

\* usedPairs.has(...) reads the set of the invocation itself (own), not the
\* set of another invocation (foreign).
LocalUsedPairs(own, foreign) == own

(***************************************************************************)
(* Actions of createGamesFromTeammatePairs.                                *)
(***************************************************************************)
\* Entry: const games = []; const usedPairs = new Set().
BuilderEnter ==
  /\ bpc = "call"
  /\ games' = <<>>
  /\ usedPairs' = NewUsedPairs(other.usedPairs)
  /\ ci' = 1
  /\ bpc' = "loop"
  /\ UNCHANGED <<allPlayers, teammatePairs>>
  /\ UNCHANGED <<runVars, tableVars, homeVars>>
  /\ UNCHANGED restVars

\* One iteration of for (const team1 of teammatePairs).
BuilderIter ==
  /\ bpc = "loop"
  /\ ci <= Len(teammatePairs)
  /\ LET st == BuilderStep([games |-> games,
                            usedPairs |-> LocalUsedPairs(usedPairs, other.usedPairs),
                            raised |-> FALSE],
                           teammatePairs[ci], allPlayers)
     IN /\ games' = st.games
        /\ usedPairs' = st.usedPairs
        /\ bpc' = IF st.raised THEN "raised" ELSE "loop"
  /\ ci' = ci + 1
  /\ UNCHANGED <<allPlayers, teammatePairs>>
  /\ UNCHANGED <<runVars, tableVars, homeVars>>
  /\ UNCHANGED restVars

\* The candidate sequence is exhausted: return games.
BuilderReturn ==
  /\ bpc = "loop"
  /\ ci > Len(teammatePairs)
  /\ bpc' = "done"
  /\ UNCHANGED <<allPlayers, teammatePairs, games, usedPairs, ci>>
  /\ UNCHANGED <<runVars, tableVars, homeVars>>
  /\ UNCHANGED restVars

NextBuilder == BuilderEnter \/ BuilderIter \/ BuilderReturn

(***************************************************************************)
(* createGamesFromTeammatePairs as a whole: the loop over all candidates.  *)
(***************************************************************************)
RECURSIVE BuilderLoop(_, _, _, _)
BuilderLoop(pairs, ps, k, st) ==
  IF k > Len(pairs) \/ st.raised THEN st
  ELSE BuilderLoop(pairs, ps, k + 1, BuilderStep(st, pairs[k], ps))

createGamesFromTeammatePairs(pairs, ps) ==
  BuilderLoop(pairs, ps, 1, [games |-> <<>>, usedPairs |-> {}, raised |-> FALSE]).games

(***************************************************************************)
(* The same three actions for a second invocation, whose arguments, locals *)
(* and position are the fields of other.                                   *)
(***************************************************************************)
OtherEnter ==
  /\ other.bpc = "call"
  /\ other' = [other EXCEPT !.games = <<>>,
                            !.usedPairs = NewUsedPairs(usedPairs),
                            !.ci = 1,
                            !.bpc = "loop"]
  /\ UNCHANGED <<builderVars, runVars, tableVars, homeVars, runs, orphans, viewVars>>

OtherIter ==
  /\ other.bpc = "loop"
  /\ other.ci <= Len(other.teammatePairs)
  /\ LET st == BuilderStep([games |-> other.games,
                            usedPairs |-> LocalUsedPairs(other.usedPairs, usedPairs),
                            raised |-> FALSE],
                           other.teammatePairs[other.ci], other.allPlayers)
     IN other' = [other EXCEPT !.games = st.games,
                               !.usedPairs = st.usedPairs,
                               !.bpc = IF st.raised THEN "raised" ELSE "loop",
                               !.ci = other.ci + 1]
  /\ UNCHANGED <<builderVars, runVars, tableVars, homeVars, runs, orphans, viewVars>>

OtherReturn ==
  /\ other.bpc = "loop"
  /\ other.ci > Len(other.teammatePairs)
  /\ other' = [other EXCEPT !.bpc = "done"]
  /\ UNCHANGED <<builderVars, runVars, tableVars, homeVars, runs, orphans, viewVars>>

NextOther == OtherEnter \/ OtherIter \/ OtherReturn

NextTwo == NextBuilder \/ NextOther

(***************************************************************************)
(* Messages.                                                               *)
(***************************************************************************)
InsufficientPlayers == "Need at least 4 players to generate games"
NotAuthenticated    == "User must be authenticated"
InsertError         == "insert error"
TypeError           == "TypeError"
GenerateFailed      == "Failed to generate round robin games"

\* State success of Home: null, or the message with the number of created games.
NoSuccess == [shown |-> FALSE, count |-> 0]
SuccessCreated(n) == [shown |-> TRUE, count |-> n]

\* Promise.all(gamePromises): not created, pending, fulfilled or rejected.
NotCreated == [state |-> "none", reason |-> "none"]
AllPending == [state |-> "pending", reason |-> "none"]
AllFulfilled == [state |-> "fulfilled", reason |-> "none"]
AllRejected(reason) == [state |-> "rejected", reason |-> reason]

\* A NewGame with team2's first player in the second slot of team1.
GameData_Swapped(game) ==
  [team1_player1_id |-> game.team1[1],
   team1_player2_id |-> game.team2[1],
   team2_player1_id |-> game.team1[2],
   team2_player2_id |-> game.team2[2],
   status |-> "active"]

(***************************************************************************)
(* The NewGame built by generateRoundRobinGames for one emitted game.      *)
(***************************************************************************)
GameData(game) ==
  [team1_player1_id |-> game.team1[1],
   team1_player2_id |-> game.team1[2],
   team2_player1_id |-> game.team2[1],
   team2_player2_id |-> game.team2[2],
   status |-> "active"]

\* A loop that leaves out the games a row of table games already holds.
PushAll_SkipStored(gs) ==
  LET stored == {gamesTable[r].data : r \in DOMAIN gamesTable}
      fresh == SelectSeq(gs, LAMBDA game : GameData(game) \notin stored)
  IN [i \in 1..Len(fresh) |->
        [data |-> GameData(fresh[i]), stage |-> "getUser", row |-> 0]]

\* gamePromises.push(createGame(gameData)) for every game: each call runs up
\* to its first await (supabase.auth.getUser()).
PushAll(gs) ==
  [i \in 1..Len(gs) |-> [data |-> GameData(gs[i]), stage |-> "getUser", row |-> 0]]

\* CONSTRAINT different_players of table games (no id is NULL here).
DifferentPlayers(d) ==
  /\ d.team1_player1_id # d.team1_player2_id
  /\ d.team1_player1_id # d.team2_player1_id
  /\ d.team1_player1_id # d.team2_player2_id
  /\ d.team1_player2_id # d.team2_player1_id
  /\ d.team1_player2_id # d.team2_player2_id
  /\ d.team2_player1_id # d.team2_player2_id

\* The row the insert stores and returns: the NewGame plus the generated id.
GameRow(id, d) == [id |-> id, data |-> d]

\* Promise.all after the promise at index i was fulfilled / rejected.
AllAfterFulfil(all, ps, i) ==
  IF all.state = "pending" /\ \A k \in DOMAIN ps : k # i => ps[k].stage = "fulfilled"
  THEN AllFulfilled ELSE all

AllAfterReject(all, reason) ==
  IF all.state = "pending" THEN AllRejected(reason) ELSE all

\* await Promise.all(gamePromises) fulfilled: the rows in the order of the promises.
Results(ps, table) == [i \in DOMAIN ps |-> table[ps[i].row]]

(***************************************************************************)
(* Home: the Auto-Generate All Games button and handleGenerateRoundRobin.  *)
(***************************************************************************)
\* Another session deletes a player (deletePlayer): the table changes, the
\* players state of this Home does not.
DeletePlayerElsewhere ==
  /\ hpc \in {"idle", "getAllPlayers"}
  /\ \E i \in 1..Len(playersTable) :
       playersTable' = [k \in 1..(Len(playersTable) - 1) |->
                          IF k < i THEN playersTable[k] ELSE playersTable[k + 1]]
  /\ UNCHANGED <<gamesTable, builderVars, runVars, homeVars>>
  /\ UNCHANGED restVars

\* onClick={handleGenerateRoundRobin}, disabled={players.length < 4}.
HomeClick ==
  /\ hpc = "idle"
  /\ ~(Len(players) < MinPlayers)
  /\ hpc' = "getAllPlayers"
  /\ UNCHANGED <<players, success, error, builderVars, runVars, tableVars>>
  /\ runs' = runs + 1
  /\ UNCHANGED <<orphans, other, viewVars>>

\* const allPlayers = await getAllPlayers(); then the call of
\* generateRoundRobinGames(allPlayers).
HomeGetAllPlayers ==
  /\ hpc = "getAllPlayers"
  /\ \E ok \in BOOLEAN :
       IF ok
       THEN /\ selectedPlayers' = playersTable
            /\ pc' = "check"
            /\ hpc' = "generating"
            /\ UNCHANGED error
       ELSE /\ error' = GenerateFailed
            /\ hpc' = "done"
            /\ UNCHANGED <<selectedPlayers, pc>>
  /\ UNCHANGED <<players, success, gamePromises, allSettled, thrown, results>>
  /\ UNCHANGED <<builderVars, tableVars>>
  /\ UNCHANGED restVars

(***************************************************************************)
(* generateRoundRobinGames.                                                *)
(***************************************************************************)
\* if (selectedPlayers.length < 4) throw ...
\* A check for fewer than 3 players.
TooFew_Three(ps) == Len(ps) < 3

TooFew(ps) == Len(ps) < MinPlayers

GRR_Check ==
  /\ pc = "check"
  /\ IF TooFew(selectedPlayers)
     THEN pc' = "rejected" /\ thrown' = InsufficientPlayers
     ELSE pc' = "auth" /\ UNCHANGED thrown
  /\ UNCHANGED <<selectedPlayers, gamePromises, allSettled, results>>
  /\ UNCHANGED <<builderVars, tableVars, homeVars>>
  /\ UNCHANGED restVars

\* await supabase.auth.getUser(); then generateAllTeammatePairs and the call
\* of createGamesFromTeammatePairs.
GRR_Auth ==
  /\ pc = "auth"
  /\ \E ok \in BOOLEAN :
       IF ok
       THEN /\ teammatePairs' = generateAllTeammatePairs(selectedPlayers)
            /\ allPlayers' = selectedPlayers
            /\ bpc' = "call"
            /\ pc' = "generate"
            /\ UNCHANGED thrown
       ELSE /\ pc' = "rejected"
            /\ thrown' = NotAuthenticated
            /\ UNCHANGED <<teammatePairs, allPlayers, bpc>>
  /\ UNCHANGED <<games, usedPairs, ci>>
  /\ UNCHANGED <<selectedPlayers, gamePromises, allSettled, results>>
  /\ UNCHANGED <<tableVars, homeVars>>
  /\ UNCHANGED restVars

\* The builder returned (or threw): the for loop pushes one createGame call
\* per game, then Promise.all is created and awaited.
GRR_Push ==
  /\ pc = "generate"
  /\ bpc \in {"done", "raised"}
  /\ IF bpc = "raised"
     THEN /\ pc' = "rejected"
          /\ thrown' = TypeError
          /\ UNCHANGED <<gamePromises, allSettled, orphans>>
     ELSE /\ gamePromises' = PushAll(games)
          /\ orphans' = orphans \o gamePromises
          /\ allSettled' = IF PushAll(games) = <<>> THEN AllFulfilled ELSE AllPending
          /\ pc' = "await"
          /\ UNCHANGED thrown
  /\ UNCHANGED <<selectedPlayers, results>>
  /\ UNCHANGED <<builderVars, tableVars, homeVars>>
  /\ UNCHANGED <<runs, other, viewVars>>

\* Writes made one after the other: a createGame call goes on only once the
\* calls pushed before it are fulfilled.
CreateGameAuth_AfterEarlier ==
  /\ \E i \in DOMAIN gamePromises :
       /\ gamePromises[i].stage = "getUser"
       /\ \A k \in 1..(i - 1) : gamePromises[k].stage = "fulfilled"
       /\ \E ok \in BOOLEAN :
            IF ok
            THEN /\ gamePromises' = [gamePromises EXCEPT ![i].stage = "insert"]
                 /\ UNCHANGED allSettled
            ELSE /\ gamePromises' = [gamePromises EXCEPT ![i].stage = "rejected"]
                 /\ allSettled' = AllAfterReject(allSettled, NotAuthenticated)
  /\ UNCHANGED <<selectedPlayers, pc, thrown, results>>
  /\ UNCHANGED <<builderVars, tableVars, homeVars>>
  /\ UNCHANGED restVars

\* createGame, first await: supabase.auth.getUser().
CreateGameAuth ==
  /\ \E i \in DOMAIN gamePromises :
       /\ gamePromises[i].stage = "getUser"
       /\ \E ok \in BOOLEAN :
            IF ok
            THEN /\ gamePromises' = [gamePromises EXCEPT ![i].stage = "insert"]
                 /\ UNCHANGED allSettled
            ELSE /\ gamePromises' = [gamePromises EXCEPT ![i].stage = "rejected"]
                 /\ allSettled' = AllAfterReject(allSettled, NotAuthenticated)
  /\ UNCHANGED <<selectedPlayers, pc, thrown, results>>
  /\ UNCHANGED <<builderVars, tableVars, homeVars>>
  /\ UNCHANGED restVars

\* createGame, second await: insert([gameWithUserId]).select().single().
CreateGameInsert ==
  /\ \E i \in DOMAIN gamePromises :
       /\ gamePromises[i].stage = "insert"
       /\ \E ok \in BOOLEAN :
            IF ok /\ DifferentPlayers(gamePromises[i].data)
            THEN /\ gamesTable' = Append(gamesTable,
                                         GameRow(Len(gamesTable) + 1, gamePromises[i].data))
                 /\ gamePromises' = [gamePromises EXCEPT ![i].stage = "fulfilled",
                                                         ![i].row = Len(gamesTable) + 1]
                 /\ allSettled' = AllAfterFulfil(allSettled, gamePromises, i)
            ELSE /\ gamePromises' = [gamePromises EXCEPT ![i].stage = "rejected"]
                 /\ allSettled' = AllAfterReject(allSettled, InsertError)
                 /\ UNCHANGED gamesTable
  /\ UNCHANGED <<selectedPlayers, pc, thrown, results>>
  /\ UNCHANGED <<playersTable, builderVars, homeVars>>
  /\ UNCHANGED restVars

\* const results = await Promise.all(gamePromises); return results;
GRR_Await ==
  /\ pc = "await"
  /\ allSettled.state # "pending"
  /\ IF allSettled.state = "fulfilled"
     THEN /\ results' = Results(gamePromises, gamesTable)
          /\ pc' = "resolved"
          /\ UNCHANGED thrown
     ELSE /\ thrown' = allSettled.reason
          /\ pc' = "rejected"
          /\ UNCHANGED results
  /\ UNCHANGED <<selectedPlayers, gamePromises, allSettled>>
  /\ UNCHANGED <<builderVars, tableVars, homeVars>>
  /\ UNCHANGED restVars

(***************************************************************************)
(* handleGenerateRoundRobin after generateRoundRobinGames settled.         *)
(***************************************************************************)
\* await loadData() (which catches its own errors), then setSuccess(...)
\* with createdGames.length and setError(null).
HomeSuccess ==
  /\ hpc = "generating"
  /\ pc = "resolved"
  /\ \E ok \in BOOLEAN : players' = IF ok THEN playersTable ELSE players
  /\ success' = SuccessCreated(Len(results))
  /\ error' = "null"
  /\ hpc' = "done"
  /\ UNCHANGED <<builderVars, runVars, tableVars>>
  /\ UNCHANGED restVars

\* A catch block that reports the number of games written so far.
HomeCatch_ShowsCount ==
  /\ hpc = "generating"
  /\ pc = "rejected"
  /\ success' = SuccessCreated(Cardinality({i \in DOMAIN gamePromises :
                                             gamePromises[i].stage = "fulfilled"}))
  /\ error' = "null"
  /\ hpc' = "done"
  /\ UNCHANGED <<players, builderVars, runVars, tableVars>>
  /\ UNCHANGED restVars

\* A catch block that deletes the games the run has written.
HomeCatch_Rollback ==
  /\ hpc = "generating"
  /\ pc = "rejected"
  /\ gamesTable' = <<>>
  /\ error' = GenerateFailed
  /\ hpc' = "done"
  /\ UNCHANGED <<players, success, playersTable, builderVars, runVars>>
  /\ UNCHANGED restVars

\* catch (err): setError("Failed to generate round robin games").
HomeCatch ==
  /\ hpc = "generating"
  /\ pc = "rejected"
  /\ error' = GenerateFailed
  /\ hpc' = "done"
  /\ UNCHANGED <<players, success, builderVars, runVars, tableVars>>
  /\ UNCHANGED restVars

\* The button clicked again after handleGenerateRoundRobin has finished and
\* every createGame call of that run has settled.
HomeClickAgain ==
  /\ hpc = "done"
  /\ runs < MaxRuns
  /\ \A i \in DOMAIN gamePromises : gamePromises[i].stage \in {"fulfilled", "rejected"}
  /\ ~(Len(players) < MinPlayers)
  /\ hpc' = "getAllPlayers"
  /\ runs' = runs + 1
  /\ UNCHANGED <<players, success, error, builderVars, runVars, tableVars>>
  /\ UNCHANGED <<orphans, other, viewVars>>

NextRun ==
  \/ DeletePlayerElsewhere
  \/ HomeClick
  \/ HomeGetAllPlayers
  \/ GRR_Check
  \/ GRR_Auth
  \/ GRR_Push
  \/ CreateGameAuth
  \/ CreateGameInsert
  \/ GRR_Await
  \/ HomeSuccess
  \/ HomeCatch

Next == NextBuilder \/ NextRun

(***************************************************************************)
(* GameView: the game it shows (state game), the row of that game in table *)
(* games, and the handler calls made from it.  A call is made by a click,  *)
(* runs up to its await, and goes on once its writes have been answered.   *)
(***************************************************************************)
generationVars == <<builderVars, runVars, tableVars, homeVars, runs, orphans, other>>

\* null, of a timestamp and of switch_sides_interval; timestamps are positive.
Null == 0

\* No GameView is open.
NoGame == [status |-> "none"]

NoView ==
  /\ viewGame = NoGame
  /\ gameRow = NoGame
  /\ now = 0
  /\ calls = <<>>
  /\ mounted = FALSE
  /\ viewError = "null"

Max(a, b) == IF a > b THEN a ELSE b

\* { ...prev, ...updates }, and .update(updates) on the row: the fields of
\* updates replace those of prev.
Merge(prev, updates) ==
  [f \in DOMAIN prev |-> IF f \in DOMAIN updates THEN updates[f] ELSE prev[f]]

\* `${team}_player1_points` and `${team}_player2_points`.
Player1Points(team) ==
  IF team = "team1" THEN "team1_player1_points" ELSE "team2_player1_points"

Player2Points(team) ==
  IF team = "team1" THEN "team1_player2_points" ELSE "team2_player2_points"

\* One supabase.from('games').update(updates) that has been sent.
Write(updates) == [updates |-> updates, state |-> "sent"]

\* A handler call that has reached its await: the writes it awaits and the
\* fields its setGame will set once they are all answered.
Call(handler, team, pointsToAdd, writes, local) ==
  [handler |-> handler, team |-> team, pointsToAdd |-> pointsToAdd,
   writes |-> writes, local |-> local, state |-> "pending"]

\* The message of the catch block of a handler.
FailedMessage(handler) ==
  CASE handler = "handleTeamPointsChange" -> "Failed to update team points"
    [] handler = "handleStartTimer" -> "Failed to start timer"
    [] handler = "handlePauseTimer" -> "Failed to pause timer"
    [] handler = "handleResumeTimer" -> "Failed to resume timer"
    [] handler = "handleResetTimer" -> "Failed to reset timer"
    [] OTHER -> "Failed to end game"

\* newPoints1 and newPoints2 of handleTeamPointsChange, as the fields to set.
NewPoints(g, team, pointsToAdd) ==
  LET currentPoints1 == g[Player1Points(team)]
      currentPoints2 == g[Player2Points(team)]
  IN (Player1Points(team) :> Max(0, currentPoints1 + pointsToAdd))
     @@ (Player2Points(team) :> Max(0, currentPoints2 + pointsToAdd))

\* shouldShowSwitchSides.
shouldShowSwitchSides(g) ==
  IF g = NoGame \/ g.switch_sides_interval = Null THEN FALSE
  ELSE LET totalScore == g.team1_player1_points + g.team1_player2_points
                         + g.team2_player1_points + g.team2_player2_points
       IN totalScore > 0 /\ totalScore % g.switch_sides_interval = 0

\* {shouldShowSwitchSides() && game?.status === 'active' && (...)}.
SwitchSidesIndicator == mounted /\ shouldShowSwitchSides(viewGame) /\ viewGame.status = "active"

\* A click on +1 or -1 of a team (-1 is disabled at 0 points):
\* handleTeamPointsChange up to await Promise.all([...]).
HandleTeamPointsChange ==
  /\ mounted
  /\ Len(calls) < MaxClicks
  /\ \E team \in {"team1", "team2"}, pointsToAdd \in {1, -1} :
       /\ pointsToAdd = -1 => viewGame[Player1Points(team)] # 0
       /\ LET new == NewPoints(viewGame, team, pointsToAdd)
              p1 == Player1Points(team)
              p2 == Player2Points(team)
          IN calls' = Append(calls,
                        Call("handleTeamPointsChange", team, pointsToAdd,
                             <<Write(p1 :> new[p1]), Write(p2 :> new[p2])>>, new))
  /\ UNCHANGED <<viewGame, gameRow, now, mounted, viewError>>
  /\ UNCHANGED generationVars

\* The timer and End Game buttons are shown for an active game.
ActiveControls ==
  /\ mounted
  /\ viewGame.status = "active"
  /\ Len(calls) < MaxClicks

\* A handler with one updateGame (or endGame) call, up to its await.
CallUpdate(handler, updates) ==
  calls' = Append(calls, Call(handler, "none", 0, <<Write(updates)>>, updates))

\* Start Timer, shown while timer_started_at is not set.
HandleStartTimer ==
  /\ ActiveControls
  /\ viewGame.timer_started_at = Null
  /\ CallUpdate("handleStartTimer", [timer_started_at |-> now, timer_paused_at |-> Null])
  /\ UNCHANGED <<viewGame, gameRow, now, mounted, viewError>>
  /\ UNCHANGED generationVars

\* Pause Timer, shown while the timer is started and not paused.
HandlePauseTimer ==
  /\ ActiveControls
  /\ viewGame.timer_started_at # Null
  /\ viewGame.timer_paused_at = Null
  /\ CallUpdate("handlePauseTimer", [timer_paused_at |-> now])
  /\ UNCHANGED <<viewGame, gameRow, now, mounted, viewError>>
  /\ UNCHANGED generationVars

\* newTotalPausedTime without the paused time of the earlier pauses.
ResumeUpdates_DropsTotal(g, clock) ==
  [timer_paused_at |-> Null, timer_total_paused_time |-> clock - g.timer_paused_at]

\* The updates of handleResumeTimer: additionalPausedTime is added to
\* timer_total_paused_time.
ResumeUpdates(g, clock) ==
  LET additionalPausedTime == clock - g.timer_paused_at
      newTotalPausedTime == g.timer_total_paused_time + additionalPausedTime
  IN [timer_paused_at |-> Null, timer_total_paused_time |-> newTotalPausedTime]

\* Resume Timer, shown while the timer is started and paused.
HandleResumeTimer ==
  /\ ActiveControls
  /\ viewGame.timer_started_at # Null
  /\ viewGame.timer_paused_at # Null
  /\ CallUpdate("handleResumeTimer", ResumeUpdates(viewGame, now))
  /\ UNCHANGED <<viewGame, gameRow, now, mounted, viewError>>
  /\ UNCHANGED generationVars

\* Reset Timer, always shown.
HandleResetTimer ==
  /\ ActiveControls
  /\ CallUpdate("handleResetTimer",
                [timer_started_at |-> Null, timer_paused_at |-> Null,
                 timer_total_paused_time |-> 0])
  /\ UNCHANGED <<viewGame, gameRow, now, mounted, viewError>>
  /\ UNCHANGED generationVars

\* End Game: endGame sets status and ended_at, nothing else.
HandleEndGame ==
  /\ ActiveControls
  /\ CallUpdate("handleEndGame", [status |-> "ended", ended_at |-> now])
  /\ UNCHANGED <<viewGame, gameRow, now, mounted, viewError>>
  /\ UNCHANGED generationVars

\* Half a second passes.
Tick ==
  /\ now < 2000 + MaxTicks * 500
  /\ now' = now + 500
  /\ UNCHANGED <<viewGame, gameRow, calls, mounted, viewError>>
  /\ UNCHANGED generationVars

\* LiveTimer.updateTimer at time clock: totalElapsed in milliseconds; -1
\* stands for the early return that shows "0:00".
totalElapsed(g, clock) ==
  IF g.ended_at = Null /\ g.timer_started_at = Null THEN -1
  ELSE LET actualStartTime == IF g.timer_started_at # Null
                              THEN g.timer_started_at ELSE g.created_at
       IN Max(0, (IF g.ended_at # Null THEN g.ended_at
                  ELSE IF g.timer_paused_at # Null THEN g.timer_paused_at
                  ELSE clock)
                 - actualStartTime - g.timer_total_paused_time)

\* The text LiveTimer shows, as its numbers: m:ss, or h:mm:ss from one hour on.
elapsedTime(g, clock) ==
  LET ms == totalElapsed(g, clock)
      hours == ms \div (1000 * 60 * 60)
      minutes == (ms % (1000 * 60 * 60)) \div (1000 * 60)
      seconds == (ms % (1000 * 60)) \div 1000
  IN IF ms = -1 THEN <<0, 0>>
     ELSE IF hours > 0 THEN <<hours, minutes, seconds>>
     ELSE <<minutes, seconds>>

\* One write reaches table games and is answered: updatePlayerPointsInGame,
\* updateGame, endGame.  Writes are answered in any order.
UpdateRow ==
  /\ \E c \in DOMAIN calls : \E w \in DOMAIN calls[c].writes :
       /\ calls[c].writes[w].state = "sent"
       /\ \E ok \in BOOLEAN :
            IF ok
            THEN /\ gameRow' = Merge(gameRow, calls[c].writes[w].updates)
                 /\ calls' = [calls EXCEPT ![c].writes[w].state = "done"]
            ELSE /\ calls' = [calls EXCEPT ![c].writes[w].state = "failed"]
                 /\ UNCHANGED gameRow
  /\ UNCHANGED <<viewGame, now, mounted, viewError>>
  /\ UNCHANGED generationVars

\* A handler goes on after its await: setGame(prev => ...) when every write
\* succeeded (navigate("/") for handleEndGame), the catch block when a write
\* failed.  A setGame after the view was left sets nothing.
AfterAwait ==
  /\ \E c \in DOMAIN calls :
       /\ calls[c].state = "pending"
       /\ IF \E w \in DOMAIN calls[c].writes : calls[c].writes[w].state = "failed"
          THEN /\ viewError' = IF mounted THEN FailedMessage(calls[c].handler) ELSE viewError
               /\ calls' = [calls EXCEPT ![c].state = "rejected"]
               /\ UNCHANGED <<viewGame, mounted>>
          ELSE /\ \A w \in DOMAIN calls[c].writes : calls[c].writes[w].state = "done"
               /\ calls' = [calls EXCEPT ![c].state = "resolved"]
               /\ IF calls[c].handler = "handleEndGame"
                  THEN /\ mounted' = FALSE
                       /\ UNCHANGED <<viewGame, viewError>>
                  ELSE /\ viewGame' = IF mounted THEN Merge(viewGame, calls[c].local) ELSE viewGame
                       /\ viewError' = IF mounted /\ calls[c].handler = "handleTeamPointsChange"
                                       THEN "null" ELSE viewError
                       /\ UNCHANGED mounted
  /\ UNCHANGED <<gameRow, now>>
  /\ UNCHANGED generationVars

(***************************************************************************)
(* The builder applied to a roster drawn from the bounded set of rosters.  *)
(***************************************************************************)
BuilderInit(max) ==
  /\ allPlayers \in Rosters(max)
  /\ teammatePairs = generateAllTeammatePairs(allPlayers)
  /\ games = <<>>
  /\ usedPairs = {}
  /\ ci = 1
  /\ bpc = "call"
  /\ selectedPlayers = <<>>
  /\ pc = "idle"
  /\ gamePromises = <<>>
  /\ allSettled = NotCreated
  /\ thrown = "none"
  /\ results = <<>>
  /\ playersTable = <<>>
  /\ gamesTable = <<>>
  /\ players = <<>>
  /\ hpc = "idle"
  /\ success = NoSuccess
  /\ error = "null"
  /\ runs = 0
  /\ orphans = <<>>
  /\ NoView
  /\ other = NoInvocation

InitBuilder == BuilderInit(MaxPlayers)

\* Two invocations of the builder, in any interleaving of their steps: one on
\* any roster, the other on the same roster or on a roster in ascending order.
InitTwo ==
  /\ allPlayers \in Rosters(MaxTwoPlayers)
  /\ teammatePairs = generateAllTeammatePairs(allPlayers)
  /\ games = <<>>
  /\ usedPairs = {}
  /\ ci = 1
  /\ bpc = "call"
  /\ \E ps \in {allPlayers} \cup {Ascending(n) : n \in 0..MaxTwoPlayers} :
       other = Invocation(ps, "call")
  /\ selectedPlayers = <<>>
  /\ pc = "idle"
  /\ gamePromises = <<>>
  /\ allSettled = NotCreated
  /\ thrown = "none"
  /\ results = <<>>
  /\ playersTable = <<>>
  /\ gamesTable = <<>>
  /\ players = <<>>
  /\ hpc = "idle"
  /\ success = NoSuccess
  /\ error = "null"
  /\ runs = 0
  /\ orphans = <<>>
  /\ NoView

SpecTwo == InitTwo /\ [][NextTwo]_vars

SpecBuilder == InitBuilder /\ [][NextBuilder]_vars

\* The builder is synchronous code: once called it runs to its end.
InitFairBuilder == BuilderInit(MaxFairPlayers)

FairSpecBuilder == InitFairBuilder /\ [][NextBuilder]_vars /\ WF_vars(NextBuilder)

(***************************************************************************)
(* A whole generation run from the Home page: the players table holds a    *)
(* roster, and the players state is the snapshot loaded from it.           *)
(***************************************************************************)
RunInit(rosters) ==
  /\ playersTable \in rosters
  /\ players = playersTable
  /\ gamesTable = <<>>
  /\ allPlayers = <<>>
  /\ teammatePairs = <<>>
  /\ games = <<>>
  /\ usedPairs = {}
  /\ ci = 1
  /\ bpc = "idle"
  /\ selectedPlayers = <<>>
  /\ pc = "idle"
  /\ gamePromises = <<>>
  /\ allSettled = NotCreated
  /\ thrown = "none"
  /\ results = <<>>
  /\ hpc = "idle"
  /\ success = NoSuccess
  /\ error = "null"
  /\ runs = 0
  /\ orphans = <<>>
  /\ NoView
  /\ other = NoInvocation

Init == RunInit(Rosters(MaxRunPlayers))

Spec == Init /\ [][Next]_vars

(***************************************************************************)
(* Generation runs in a row from the same Home page, on a players table    *)
(* that no other session changes: the button is clicked again once         *)
(* handleGenerateRoundRobin has finished and its createGame calls have     *)
(* settled.                                                                *)
(***************************************************************************)
InitTwice == RunInit({Ascending(n) : n \in 0..MaxTwicePlayers})

NextTwice ==
  \/ NextBuilder
  \/ HomeClick
  \/ HomeGetAllPlayers
  \/ GRR_Check
  \/ GRR_Auth
  \/ GRR_Push
  \/ CreateGameAuth
  \/ CreateGameInsert
  \/ GRR_Await
  \/ HomeSuccess
  \/ HomeCatch
  \/ HomeClickAgain

SpecTwice == InitTwice /\ [][NextTwice]_vars

(***************************************************************************)
(* createGamesFromTeammatePairs applied to pairs in either orientation:    *)
(* its parameter teammatePairs is any Array<[Player, Player]>.  The pairs  *)
(* whose first player is in flipped are handed over as [b, a].             *)
(***************************************************************************)
Orient(pairs, flipped) ==
  [k \in DOMAIN pairs |->
     IF pairs[k][1] \in flipped THEN <<pairs[k][2], pairs[k][1]>> ELSE pairs[k]]

InitKey ==
  /\ allPlayers \in Rosters(MaxKeyPlayers)
  /\ \E flipped \in SUBSET Range(allPlayers) :
       teammatePairs = Orient(generateAllTeammatePairs(allPlayers), flipped)
  /\ games = <<>>
  /\ usedPairs = {}
  /\ ci = 1
  /\ bpc = "call"
  /\ selectedPlayers = <<>>
  /\ pc = "idle"
  /\ gamePromises = <<>>
  /\ allSettled = NotCreated
  /\ thrown = "none"
  /\ results = <<>>
  /\ playersTable = <<>>
  /\ gamesTable = <<>>
  /\ players = <<>>
  /\ hpc = "idle"
  /\ success = NoSuccess
  /\ error = "null"
  /\ runs = 0
  /\ orphans = <<>>
  /\ NoView
  /\ other = NoInvocation

SpecKey == InitKey /\ [][NextBuilder]_vars

(***************************************************************************)
(* A GameView on a loaded game.  Nothing is being generated meanwhile.     *)
(***************************************************************************)
NoGeneration ==
  /\ allPlayers = <<>>
  /\ teammatePairs = <<>>
  /\ games = <<>>
  /\ usedPairs = {}
  /\ ci = 1
  /\ bpc = "idle"
  /\ selectedPlayers = <<>>
  /\ pc = "idle"
  /\ gamePromises = <<>>
  /\ allSettled = NotCreated
  /\ thrown = "none"
  /\ results = <<>>
  /\ playersTable = <<>>
  /\ gamesTable = <<>>
  /\ players = <<>>
  /\ hpc = "idle"
  /\ success = NoSuccess
  /\ error = "null"
  /\ runs = 0
  /\ orphans = <<>>
  /\ other = NoInvocation

\* A row of table games: the points and timer columns, status, created_at,
\* ended_at and switch_sides_interval.
GameRecord(points1, points2, status, ended, started, paused, totalPaused, interval) ==
  [team1_player1_points |-> points1, team1_player2_points |-> points1,
   team2_player1_points |-> points2, team2_player2_points |-> points2,
   status |-> status, created_at |-> 500, ended_at |-> ended,
   timer_started_at |-> started, timer_paused_at |-> paused,
   timer_total_paused_time |-> totalPaused, switch_sides_interval |-> interval]

\* loadGameData has set game to the row; the view is shown.
ViewLoaded ==
  /\ viewGame = gameRow
  /\ now = 2000
  /\ calls = <<>>
  /\ mounted = TRUE
  /\ viewError = "null"

\* The score of a game at 0:0, active or ended, with any switch sides interval.
InitScore ==
  /\ NoGeneration
  /\ \E interval \in 0..MaxInterval, status \in {"active", "ended"} :
       gameRow = GameRecord(0, 0, status, IF status = "ended" THEN 2000 ELSE Null,
                            Null, Null, 0, interval)
  /\ ViewLoaded

NextScore == HandleTeamPointsChange \/ UpdateRow \/ AfterAwait

SpecScore == InitScore /\ [][NextScore]_vars

\* The timer of an active game: never started, running, or paused, with or
\* without paused time from earlier pauses.
InitTimer ==
  /\ NoGeneration
  /\ \E started \in {Null, 500} :
       \E paused \in (IF started = Null THEN {Null} ELSE {Null, 1500}) :
         \E totalPaused \in (IF started = Null THEN {0} ELSE {0, 500}) :
           gameRow = GameRecord(0, 0, "active", Null, started, paused, totalPaused, Null)
  /\ ViewLoaded

NextTimer ==
  \/ Tick
  \/ HandleStartTimer
  \/ HandlePauseTimer
  \/ HandleResumeTimer
  \/ HandleResetTimer
  \/ HandleEndGame
  \/ UpdateRow
  \/ AfterAwait

SpecTimer == InitTimer /\ [][NextTimer]_vars

(***************************************************************************)
(* Properties of the schedule builder (SpecBuilder, FairSpecBuilder).      *)
(***************************************************************************)
Team1Key(game) == PairKey(game.team1[1], game.team1[2])
Team2Key(game) == PairKey(game.team2[1], game.team2[2])
GamePlayers(game) == Range(game.team1) \cup Range(game.team2)

\* The unordered pairs of players on opposite teams of a game.
Opponents(game) ==
  {PairKey(a, b) : a \in Range(game.team1), b \in Range(game.team2)}

\* C1: in the list of games the builder returns, no unordered pair of players
\* is a team more than once, in either role: not team1 of two games, not
\* team2 of two games, not team1 of one game and team2 of a game.
C1_NoPairTeamsTwice ==
  bpc = "done" =>
    \A g, h \in DOMAIN games :
      /\ g # h => Team1Key(games[g]) # Team1Key(games[h])
      /\ g # h => Team2Key(games[g]) # Team2Key(games[h])
      /\ Team1Key(games[g]) # Team2Key(games[h])

\* The builder returned several games for a roster of five or more.
C1_Witness == bpc = "done" /\ Len(allPlayers) >= 5 /\ Len(games) >= 3

\* C2: for a roster of at least 4 players, the four players of every emitted
\* game are pairwise distinct (team1 and team2 share no player).
C2_TeamsDisjoint ==
  Len(allPlayers) >= 4 =>
    \A g \in DOMAIN games :
      /\ Range(games[g].team1) \cap Range(games[g].team2) = {}
      /\ Cardinality(GamePlayers(games[g])) = 4

\* A game was emitted for a roster of at least 4 players.
C2_Witness == Len(allPlayers) >= 4 /\ bpc = "loop" /\ Len(games) >= 1

\* C3 as stated: for a roster of at least 4 players, no unordered pair of
\* players is on opposite teams in two emitted games.
C3_NoOpponentsTwice ==
  Len(allPlayers) >= 4 =>
    \A g, h \in DOMAIN games :
      g # h => Opponents(games[g]) \cap Opponents(games[h]) = {}

\* C3 as amended: for a roster of at least 4 players, no unordered pair of
\* players is repeated as an opposing pair: the team2 of an emitted game is
\* neither the team1 nor the team2 of any other emitted game.
C3_NoOpposingPairTwice ==
  Len(allPlayers) >= 4 =>
    \A g, h \in DOMAIN games :
      g # h => /\ Team2Key(games[g]) # Team2Key(games[h])
               /\ Team2Key(games[g]) # Team1Key(games[h])

\* Two emitted games share a pair of opponents, and no opposing pair recurs.
C3_Witness ==
  /\ Len(allPlayers) >= 4
  /\ \E g, h \in DOMAIN games :
       g # h /\ Opponents(games[g]) \cap Opponents(games[h]) # {}

\* C8 as stated: for a roster [A,B,C,D] the builder returns exactly one game,
\* (A,B) against (C,D).
C8_OneGameForFour ==
  (bpc = "done" /\ Len(allPlayers) = 4) =>
    games = << [team1 |-> <<allPlayers[1], allPlayers[2]>>,
                team2 |-> <<allPlayers[3], allPlayers[4]>>] >>

\* C8 as amended: for a roster [A,B,C,D] the builder returns exactly three
\* games, (A,B) against (C,D), (A,C) against (B,D) and (A,D) against (B,C),
\* in this order; the candidates (B,C), (B,D), (C,D) produce no game.
C8_ThreeGamesForFour ==
  (bpc = "done" /\ Len(allPlayers) = 4) =>
    games = << [team1 |-> <<allPlayers[1], allPlayers[2]>>,
                team2 |-> <<allPlayers[3], allPlayers[4]>>],
               [team1 |-> <<allPlayers[1], allPlayers[3]>>,
                team2 |-> <<allPlayers[2], allPlayers[4]>>],
               [team1 |-> <<allPlayers[1], allPlayers[4]>>,
                team2 |-> <<allPlayers[2], allPlayers[3]>>] >>

\* The builder returned for a roster of four whose ids are not in ascending order.
C8_Witness ==
  /\ bpc = "done"
  /\ Len(allPlayers) = 4
  /\ allPlayers[1] > allPlayers[2]
  /\ Len(games) = 3

\* C9: for a roster of at least 4 players the builder never returns an empty
\* list of games.
C9_AtLeastOneGame ==
  (bpc = "done" /\ Len(allPlayers) >= 4) => Len(games) >= 1

\* The builder returned for a roster of exactly 5 players.
C9_Witness == bpc = "done" /\ Len(allPlayers) = 5 /\ Len(games) >= 1

\* C10: for a roster of at least 4 players the builder never throws, and it
\* returns, having gone through the whole candidate sequence.
C10_TerminatesWithoutError ==
  /\ [](Len(allPlayers) >= 4 => bpc # "raised")
  /\ (Len(allPlayers) >= 4 /\ bpc = "call")
       ~> (bpc = "done" /\ ci = Len(teammatePairs) + 1)

\* The builder returned for a roster of 5 players, leaving a player in no game.
C10_Witness ==
  /\ bpc = "done"
  /\ Len(allPlayers) = 5
  /\ ci = Len(teammatePairs) + 1
  /\ \E p \in Range(allPlayers) : \A g \in DOMAIN games : p \notin GamePlayers(games[g])

(***************************************************************************)
(* Properties of a generation run (Spec).                                  *)
(***************************************************************************)
Fulfilled == {i \in DOMAIN gamePromises : gamePromises[i].stage = "fulfilled"}
Rejected  == {i \in DOMAIN gamePromises : gamePromises[i].stage = "rejected"}

\* C4: called with fewer than 4 players, generateRoundRobinGames fails with
\* the insufficient-players error before the pair enumerator, the builder or
\* createGame is invoked, and no row is written to table games.
C4_TooFewRejectedFirst ==
  (pc # "idle" /\ Len(selectedPlayers) < 4) =>
    /\ pc \in {"check", "rejected"}
    /\ pc = "rejected" => thrown = InsufficientPlayers
    /\ teammatePairs = <<>>
    /\ bpc = "idle"
    /\ gamePromises = <<>>
    /\ allSettled = NotCreated
    /\ gamesTable = <<>>

\* generateRoundRobinGames rejected a roster of 3 players, and Home showed the error.
C4_Witness ==
  /\ Len(selectedPlayers) = 3
  /\ pc = "rejected"
  /\ thrown = InsufficientPlayers
  /\ hpc = "done"
  /\ error = GenerateFailed

C6_OneWritePerGame ==
  /\ pc \in {"await", "resolved"} =>
       /\ Len(gamePromises) = Len(games)
       /\ \A i \in DOMAIN gamePromises :
            /\ gamePromises[i].data.team1_player1_id = games[i].team1[1]
            /\ gamePromises[i].data.team1_player2_id = games[i].team1[2]
            /\ gamePromises[i].data.team2_player1_id = games[i].team2[1]
            /\ gamePromises[i].data.team2_player2_id = games[i].team2[2]
            /\ gamePromises[i].data.status = "active"
  /\ pc = "resolved" =>
       /\ Len(results) = Len(games)
       /\ Len(gamesTable) = Len(games)
       /\ \A i \in DOMAIN results :
            /\ results[i].data = gamePromises[i].data
            /\ results[i] \in Range(gamesTable)
       /\ \A i, k \in DOMAIN results : i # k => results[i].id # results[k].id

\* Every write of a run succeeded and Home showed the number of games.
C6_Witness ==
  /\ pc = "resolved"
  /\ Len(games) >= 3
  /\ Len(results) = Len(games)
  /\ hpc = "done"
  /\ success = SuccessCreated(Len(games))

\* C7: when a write of the run failed, every game written successfully by
\* another write of the run is, and stays, a row of table games.
C7_NoRollback ==
  Rejected # {} =>
    \A i \in Fulfilled :
      /\ gamePromises[i].row \in DOMAIN gamesTable
      /\ gamesTable[gamePromises[i].row] =
           GameRow(gamePromises[i].row, gamePromises[i].data)

\* Home reported the failure of a run of which two writes are stored.
C7_Witness ==
  /\ hpc = "done"
  /\ error = GenerateFailed
  /\ Rejected # {}
  /\ Cardinality(Fulfilled) >= 2
  /\ Len(gamesTable) >= 2

(***************************************************************************)
(* Further properties of the enumerator and the builder (SpecBuilder).     *)
(***************************************************************************)
\* The position of the pair of roster indices i < j in the (i, j) ascending
\* order over a roster of n players.
PairIndex(n, i, j) == (i - 1) * n - ((i - 1) * i) \div 2 + (j - i)

\* The pairs of indices i < j of a sequence, and their (i, j) ascending order.
IndexPairs(s) == {q \in (DOMAIN s) \X (DOMAIN s) : q[1] < q[2]}
Before(q, r) == q[1] < r[1] \/ (q[1] = r[1] /\ q[2] < r[2])

\* The number of emitted games a player is in.
GamesOf(p) == Cardinality({g \in DOMAIN games : p \in GamePlayers(games[g])})

\* The roster without the two players of a team, in roster order.
Without(team) == SelectSeq(allPlayers, LAMBDA p : p \notin Range(team))

\* C12: for a roster of N players the enumerator returns exactly N*(N-1)/2
\* pairs, the pair of roster indices i < j at the position it has in the
\* order i ascending, then j ascending; for N < 2 it returns no pair.
C12_PairsInIndexOrder ==
  LET n == Len(allPlayers)
  IN /\ Len(teammatePairs) = (n * (n - 1)) \div 2
     /\ n < 2 => teammatePairs = <<>>
     /\ \A q \in IndexPairs(allPlayers) :
          teammatePairs[PairIndex(n, q[1], q[2])] = <<allPlayers[q[1]], allPlayers[q[2]]>>

\* The enumerator returned the 10 pairs of a roster of 5 players.
C12_Witness == Len(allPlayers) = 5 /\ Len(teammatePairs) = 10 /\ bpc = "loop"

\* C13: for a roster of 6 players the builder returns at least 2 games, and
\* there are two players who are in different numbers of games.
C13_SixPlayersUneven ==
  (bpc = "done" /\ Len(allPlayers) = 6) =>
    /\ Len(games) >= 2
    /\ \E p, q \in Range(allPlayers) : GamesOf(p) # GamesOf(q)

\* The builder returned for 6 players, one of them in 5 games, another in 4.
C13_Witness ==
  /\ bpc = "done"
  /\ Len(allPlayers) = 6
  /\ \E p, q \in Range(allPlayers) : GamesOf(p) = 5 /\ GamesOf(q) = 4

\* C16: every player of every emitted game, in team1 or team2, is a player
\* of the roster passed to the builder.
C16_PlayersFromRoster ==
  \A g \in DOMAIN games : GamePlayers(games[g]) \subseteq Range(allPlayers)

\* Games were emitted for a roster that leaves a player out of every game.
C16_Witness ==
  /\ Len(games) >= 2
  /\ \E p \in Range(allPlayers) : GamesOf(p) = 0
  /\ bpc = "done"

\* C17: when a game is emitted, its team2 is the first pair, in (i, j)
\* ascending order over the roster without the two players of team1, whose
\* key is not in usedPairs as it was when team1 was processed: every earlier
\* pair in that order was used.
C17_Team2IsFirstUnused ==
  [][Len(games') = Len(games) + 1 =>
       LET game == games'[Len(games')]
           remaining == Without(game.team1)
       IN \E q \in IndexPairs(remaining) :
            /\ game.team2 = <<remaining[q[1]], remaining[q[2]]>>
            /\ PairKey(remaining[q[1]], remaining[q[2]]) \notin usedPairs
            /\ \A r \in IndexPairs(remaining) :
                 Before(r, q) => PairKey(remaining[r[1]], remaining[r[2]]) \in usedPairs]_vars

\* A game was emitted whose team2 is not the first pair of the remaining
\* players: the pairs before it were used.
C17_Witness ==
  /\ bpc = "loop"
  /\ \E g \in DOMAIN games :
       LET remaining == Without(games[g].team1)
       IN games[g].team2 # <<remaining[1], remaining[2]>>

\* C18: at every point of the builder's pass, usedPairs is exactly the set of
\* the keys of the team1 and team2 pairs of the games emitted so far, and it
\* has twice as many elements as there are games.
C18_UsedPairsAreTheTeams ==
  /\ usedPairs = {Team1Key(games[g]) : g \in DOMAIN games}
                   \cup {Team2Key(games[g]) : g \in DOMAIN games}
  /\ Cardinality(usedPairs) = 2 * Len(games)

\* The pass is under way with three games emitted.
C18_Witness == bpc = "loop" /\ Len(games) = 3 /\ Cardinality(usedPairs) = 6

\* The candidate the loop is at, if any.
AtCandidate == bpc = "loop" /\ ci <= Len(teammatePairs)
Candidate == teammatePairs[ci]

\* No two players outside the candidate form a pair that is not in usedPairs.
NoUnusedTeam2For(team1) ==
  \A a, b \in Range(allPlayers) \ Range(team1) :
    a # b => PairKey(a, b) \in usedPairs

\* C19: an iteration on a candidate whose key is in usedPairs, or for which
\* no unused pair of other players exists, changes neither games nor
\* usedPairs; the skipped candidate is not marked as used.
C19_SkipChangesNothing ==
  [][(AtCandidate /\ (PairKey(Candidate[1], Candidate[2]) \in usedPairs
                       \/ NoUnusedTeam2For(Candidate)))
       => (games' = games /\ usedPairs' = usedPairs)]_vars

\* A candidate was skipped for want of a team2, and its key is not in usedPairs.
C19_Witness ==
  /\ bpc = "loop"
  /\ ci > 1
  /\ Len(games) >= 1
  /\ LET skipped == teammatePairs[ci - 1]
     IN /\ PairKey(skipped[1], skipped[2]) \notin usedPairs
        /\ NoUnusedTeam2For(skipped)

\* C20: when the builder has returned, no game could be added: there are no
\* two disjoint pairs of roster players that are both absent from usedPairs.
C20_NoGameCanBeAdded ==
  bpc = "done" =>
    \A a, b, c, d \in Range(allPlayers) :
      Cardinality({a, b, c, d}) = 4 =>
        (PairKey(a, b) \in usedPairs \/ PairKey(c, d) \in usedPairs)

\* The builder returned with games emitted and some pair of the roster unused.
C20_Witness ==
  /\ bpc = "done"
  /\ Len(games) >= 1
  /\ \E a, b \in Range(allPlayers) : a # b /\ PairKey(a, b) \notin usedPairs

(***************************************************************************)
(* Properties of two invocations of the builder (SpecTwo).                 *)
(***************************************************************************)
\* C11: two invocations of the enumerator and the builder on the same roster
\* in the same order return the same pairs and the same games, with the same
\* team1 and team2 and in the same order, whatever the other invocation did
\* before or in between.
C11_SameRosterSameGames ==
  (bpc = "done" /\ other.bpc = "done" /\ other.allPlayers = allPlayers) =>
    /\ other.teammatePairs = teammatePairs
    /\ other.games = games

\* Both invocations returned, for the same roster of 4 players not in ascending order.
C11_Witness ==
  /\ bpc = "done"
  /\ other.bpc = "done"
  /\ other.allPlayers = allPlayers
  /\ Len(allPlayers) = MinPlayers
  /\ allPlayers # Ascending(MinPlayers)
  /\ Len(other.games) >= 3

\* C15: of two invocations of the builder whose steps are interleaved in any
\* order, each returns the schedule the builder returns for its roster when
\* run alone, and a step of one invocation leaves the games and usedPairs of
\* the other as they were.
C15_InvocationsIndependent ==
  /\ [](/\ bpc = "done" =>
             games = createGamesFromTeammatePairs(teammatePairs, allPlayers)
        /\ other.bpc = "done" =>
             other.games = createGamesFromTeammatePairs(other.teammatePairs,
                                                        other.allPlayers))
  /\ [][/\ other' # other => (games' = games /\ usedPairs' = usedPairs)
        /\ (games' # games \/ usedPairs' # usedPairs) => other' = other]_vars

\* Both invocations returned games, for different rosters.
C15_Witness ==
  /\ bpc = "done"
  /\ other.bpc = "done"
  /\ other.allPlayers # allPlayers
  /\ Len(games) >= 3
  /\ Len(other.games) >= 3

(***************************************************************************)
(* Properties of two generation runs in a row (SpecTwice).                 *)
(***************************************************************************)
\* The NewGame of an emitted game, field by field.
DataOf(game) ==
  [team1_player1_id |-> game.team1[1], team1_player2_id |-> game.team1[2],
   team2_player1_id |-> game.team2[1], team2_player2_id |-> game.team2[2],
   status |-> "active"]

RowsHolding(d) == {r \in DOMAIN gamesTable : gamesTable[r].data = d}

\* The second run has resolved, and the first run had emitted the same games
\* and all its writes succeeded.
RanTwiceAllWritten ==
  /\ runs = 2
  /\ pc = "resolved"
  /\ Len(games) >= 1
  /\ Len(orphans) = Len(games)
  /\ \A i \in DOMAIN orphans :
       orphans[i].stage = "fulfilled" /\ orphans[i].data = DataOf(games[i])

\* C14: after two runs of generateRoundRobinGames on the same roster with all
\* writes succeeding, every emitted game is stored in exactly two rows of
\* table games: the second run adds its own row for each game.
C14_SecondRunDuplicates ==
  RanTwiceAllWritten =>
    /\ \A i \in DOMAIN games : Cardinality(RowsHolding(DataOf(games[i]))) = 2
    /\ Len(gamesTable) = 2 * Len(games)
    /\ Len(results) = Len(games)
    /\ \A i \in DOMAIN results : \A k \in DOMAIN orphans : results[i].id # orphans[k].row

\* Home reported the success of the second of two runs on 4 players.
C14_Witness ==
  /\ RanTwiceAllWritten
  /\ hpc = "done"
  /\ Len(games) = 3
  /\ success = SuccessCreated(3)

(***************************************************************************)
(* The greedy pass against the best schedule (SpecBuilder).                *)
(***************************************************************************)
\* The unordered pairs of players of a roster, as keys.
PairsOver(ps) == {PairKey(a, b) : a, b \in Range(ps)} \ {<<a, a>> : a \in Range(ps)}

\* The games over a roster: two pairs that share no player.
GamesOver(ps) ==
  {g \in SUBSET PairsOver(ps) :
     /\ Cardinality(g) = 2
     /\ \A k, l \in g : k # l => Range(k) \cap Range(l) = {}}

\* A set of games in which no pair is a team twice.
NoPairTwice(S) == \A g, h \in S : g # h => g \cap h = {}

\* The emitted games as a set of games over the roster.
Emitted == {{Team1Key(games[g]), Team2Key(games[g])} : g \in DOMAIN games}

\* C21: for every roster of 5 players the builder returns a schedule of
\* games with disjoint teams in which no pair is a team twice, and there is
\* such a schedule over the same roster with strictly more games.
C21_GreedyNotOptimal ==
  (bpc = "done" /\ Len(allPlayers) = 5) =>
    /\ Emitted \subseteq GamesOver(allPlayers)
    /\ NoPairTwice(Emitted)
    /\ Cardinality(Emitted) = Len(games)
    /\ \E S \in SUBSET GamesOver(allPlayers) :
         NoPairTwice(S) /\ Cardinality(S) > Len(games)

\* The builder returned 3 games for 5 players, of whose 10 pairs 4 are unused.
C21_Witness ==
  /\ bpc = "done"
  /\ Len(allPlayers) = 5
  /\ Len(games) = 3
  /\ Cardinality(PairsOver(allPlayers) \ usedPairs) = 4

\* C22: when the builder returns for a roster of at least 4 players, every
\* player of the roster is in at least one of the games it returns (the
\* games a successful generation creates).
C22_EveryPlayerPlays ==
  (bpc = "done" /\ Len(allPlayers) >= MinPlayers) =>
    \A p \in Range(allPlayers) : GamesOf(p) >= 1

\* The position of a pair in the enumerated sequence.
PositionOf(team) == CHOOSE k \in DOMAIN teammatePairs : teammatePairs[k] = team

\* C25: the builder appends each game it emits to the end of games, and
\* returns games as it is: every team1 of games is an enumerated pair, one
\* the loop has already gone through, and a game that comes before another
\* in games has its team1 before the other's in the enumerated sequence.
C25_EmissionOrder ==
  /\ [][games' = games \/ (Len(games') = Len(games) + 1 /\ SubSeq(games', 1, Len(games)) = games)]_vars
  /\ [](/\ \A g \in DOMAIN games :
             /\ games[g].team1 \in Range(teammatePairs)
             /\ PositionOf(games[g].team1) < ci
        /\ \A g, h \in DOMAIN games :
             g < h => PositionOf(games[g].team1) < PositionOf(games[h].team1))

\* The builder returned 7 games for 6 players; between the team1 of two games
\* next to each other the enumerated sequence holds a pair that was skipped.
C25_Witness ==
  /\ bpc = "done"
  /\ Len(games) = 7
  /\ \E g \in 1..(Len(games) - 1) :
       PositionOf(games[g + 1].team1) > PositionOf(games[g].team1) + 1

(***************************************************************************)
(* The pair key on pairs in either orientation (SpecKey).                  *)
(***************************************************************************)
\* The teams of the emitted games as sets of two players.
TeamSets(g) == {Range(games[g].team1), Range(games[g].team2)}

Reversed(pair) == <<pair[2], pair[1]>>

\* C23: the key of (a, b) is the key of (b, a), and whatever the orientation
\* of the pairs handed to the builder, no two players are a team in two of
\* the emitted games: a pair used as [a, b] is skipped when met as [b, a].
C23_KeyOrderIndependent ==
  /\ \A a, b \in Range(allPlayers) : PairKey(a, b) = PairKey(b, a)
  /\ \A g, h \in DOMAIN games : g # h => TeamSets(g) \cap TeamSets(h) = {}
  /\ \A g \in DOMAIN games : Cardinality(TeamSets(g)) = 2

\* The candidate team1 is [b, a] where [a, b] is the team2 of an emitted
\* game, and a team1 [d, c] was emitted whose players stand as c, d in the roster.
C23_Witness ==
  /\ AtCandidate
  /\ \E g \in DOMAIN games : games[g].team2 = Reversed(Candidate)
  /\ \E g \in DOMAIN games : \E i, j \in DOMAIN allPlayers :
       i < j /\ games[g].team1 = <<allPlayers[j], allPlayers[i]>>

(***************************************************************************)
(* The writes of one generation run (Spec).                                *)
(***************************************************************************)
\* The createGame calls that have not settled.
Pending == {i \in DOMAIN gamePromises : gamePromises[i].stage \in {"getUser", "insert"}}

\* C24: when generateRoundRobinGames starts to await Promise.all, a createGame
\* call has been made for every emitted game and none has settled or written
\* yet; from then on every call that has not settled can take its next step
\* whatever became of the other calls, and a call that fails changes no
\* other call.
C24_AllWritesInitiated ==
  /\ [][(pc # "await" /\ pc' = "await") =>
          /\ Len(gamePromises') = Len(games)
          /\ \A i \in DOMAIN gamePromises' : gamePromises'[i].stage = "getUser"
          /\ gamesTable' = gamesTable]_vars
  /\ [](\A i \in Pending :
          ENABLED ((CreateGameAuth \/ CreateGameInsert)
                   /\ gamePromises'[i].stage # gamePromises[i].stage))
  /\ [][\A i \in DOMAIN gamePromises :
          (/\ DOMAIN gamePromises' = DOMAIN gamePromises
           /\ gamePromises[i].stage # "rejected"
           /\ gamePromises'[i].stage = "rejected") =>
            \A k \in DOMAIN gamePromises : k # i => gamePromises'[k] = gamePromises[k]]_vars

\* Home has reported the failure of the run, the first call is rejected, and
\* a later call has passed getUser and is about to insert its game.
C24_Witness ==
  /\ hpc = "done"
  /\ error = GenerateFailed
  /\ Len(gamePromises) >= 3
  /\ gamePromises[1].stage = "rejected"
  /\ \E i \in Pending : gamePromises[i].stage = "insert"

(***************************************************************************)
(* The score and the switch sides reminder of a GameView (SpecScore).      *)
(***************************************************************************)
\* The calls made by a click on +1 of a team.
PlusOnes(team) ==
  {c \in DOMAIN calls : calls[c].team = team /\ calls[c].pointsToAdd = 1}

\* The score the view shows for a team.
TeamPoints(team) == viewGame[Player1Points(team)]

\* C26: when only +1 was clicked, from 0:0, and every call has gone on to its
\* end with all its writes succeeding, the score shown for a team, and the
\* points of its two players in the row, are the number of +1 clicks on it.
C26_NoLostIncrement ==
  (/\ mounted
   /\ \A c \in DOMAIN calls : calls[c].state = "resolved" /\ calls[c].pointsToAdd = 1) =>
    \A team \in {"team1", "team2"} :
      /\ TeamPoints(team) = Cardinality(PlusOnes(team))
      /\ gameRow[Player1Points(team)] = Cardinality(PlusOnes(team))
      /\ gameRow[Player2Points(team)] = Cardinality(PlusOnes(team))

\* C27: for an active game the reminder is shown exactly when an interval is
\* set and the sum of the two scores shown is a positive multiple of it.
C27_ReminderAtMultiples ==
  LET k == viewGame.switch_sides_interval
      total == TeamPoints("team1") + TeamPoints("team2")
  IN (mounted /\ viewGame.status = "active") =>
       (SwitchSidesIndicator <=> (k # Null /\ total > 0 /\ total % k = 0))

(***************************************************************************)
(* The timer of a GameView (SpecTimer).                                    *)
(***************************************************************************)
\* C28: in the game shown and in its row, timer_paused_at is set only if
\* timer_started_at is set.
C28_PausedOnlyIfStarted ==
  /\ viewGame.timer_paused_at # Null => viewGame.timer_started_at # Null
  /\ gameRow.timer_paused_at # Null => gameRow.timer_started_at # Null

\* The timer shown is started and paused.
ShownPaused ==
  /\ mounted
  /\ viewGame.ended_at = Null
  /\ viewGame.timer_started_at # Null
  /\ viewGame.timer_paused_at # Null

\* The step is a click on Resume Timer.
ResumeClicked ==
  /\ Len(calls') = Len(calls) + 1
  /\ calls'[Len(calls')].handler = "handleResumeTimer"

\* C29: at a click on Resume Timer, the elapsed time of the game with the
\* updates of handleResumeTimer applied, taken at the time of the click, is
\* the elapsed time shown during the pause, in milliseconds and as text, and
\* the new total paused time is the old one plus the length of the pause;
\* while the timer shown is paused, the passing of time does not change the
\* text shown.
C29_PausedTimeExcluded ==
  /\ [][ResumeClicked =>
          LET resumed == Merge(viewGame, calls'[Len(calls')].local)
          IN /\ ShownPaused
             /\ resumed.timer_paused_at = Null
             /\ resumed.timer_total_paused_time =
                  viewGame.timer_total_paused_time + (now - viewGame.timer_paused_at)
             /\ totalElapsed(resumed, now) = totalElapsed(viewGame, now)
             /\ elapsedTime(resumed, now) = elapsedTime(viewGame, now)]_vars
  /\ [][(ShownPaused /\ now' # now) =>
          elapsedTime(viewGame', now') = elapsedTime(viewGame, now)]_vars

\* A paused timer with earlier paused time was resumed after a longer pause:
\* the view shows it running with both pauses in the total.
C29_Witness ==
  /\ mounted
  /\ \E c \in DOMAIN calls :
       calls[c].handler = "handleResumeTimer" /\ calls[c].state = "resolved"
  /\ viewGame.timer_started_at # Null
  /\ viewGame.timer_paused_at = Null
  /\ viewGame.timer_total_paused_time > 1000
  /\ gameRow.timer_total_paused_time = viewGame.timer_total_paused_time

\* C30: for a game that was ended while its timer was paused, the elapsed
\* time shown from its row is the one that was shown during that pause (the
\* one the row gives without ended_at).
C30_EndedExcludesOpenPause ==
  (/\ gameRow.status = "ended"
   /\ gameRow.timer_started_at # Null
   /\ gameRow.timer_paused_at # Null
   /\ gameRow.timer_paused_at <= gameRow.ended_at) =>
    elapsedTime(gameRow, now) = elapsedTime([gameRow EXCEPT !.ended_at = Null], now)

====
